---- MODULE Spec2Model ----
(***************************************************************************)
(* A model of the tiger-rs compiler driver (src/main.rs) and of its        *)
(* terminal colouring helper (src/terminal.rs).                            *)
(*                                                                         *)
(*   Spec         main and drive: the source file is opened, parsed and    *)
(*                analysed, the assembly file is written (.data pass,      *)
(*                .text pass with the per-function back-end pipeline,      *)
(*                pointer map), nasm and ld are run, main reports.         *)
(*   SpecNasm     to_nasm applied to every bounded input string.           *)
(*   SpecTerminal Terminal::new followed by calls of its five accessors.   *)
(***************************************************************************)
EXTENDS Integers, Sequences, FiniteSets, TLC

VARIABLES
    pc,             \* position of main/drive
    has_arg,        \* args.next() yields a file name
    layout_size,    \* value of data_layout::STRING_DATA_LAYOUT_SIZE in this build
    fragments,      \* Vec<Fragment> returned by SemanticAnalyzer::analyze
    fi,             \* index of the fragment the current for loop is at
    created,        \* File::create(&asm_output_path) has succeeded
    out,            \* the writes made to the assembly file, in order
    pointer_map,    \* the local `pointer_map` of drive
    cur,            \* locals of the Function arm: statements, munched, instructions
    log,            \* back-end stages called so far, in call order
    cmds,           \* external commands whose status() was called, in order
    nasm_status,    \* what Command::new("nasm")...status() gave
    drive_result,   \* what drive returned (or "panic")
    diags,          \* number of error.show calls made by main
    exit_code,      \* process exit status, -1 while running
    nasm_pc,        \* SpecNasm: "call" before to_nasm, "done" after
    nasm_in,        \* SpecNasm: the argument of to_nasm
    nasm_out,       \* SpecNasm: the String to_nasm returned
    platform,       \* SpecTerminal: "unix" or "windows" build (cfg)
    stderr_tty,     \* SpecTerminal: whether fd 2 is a terminal right now
    tty_at_new,     \* SpecTerminal: whether fd 2 was a terminal in Terminal::new
    terminal,       \* SpecTerminal: the Terminal value, is_a_tty field; <<>> before new
    pieces          \* SpecTerminal: what the accessor calls returned, in order

dvars == <<pc, has_arg, layout_size, fragments, fi, created, out, pointer_map,
           cur, log, cmds, nasm_status, drive_result, diags, exit_code>>
nvars == <<nasm_pc, nasm_in, nasm_out>>
tvars == <<platform, stderr_tty, tty_at_new, terminal, pieces>>
vars  == <<dvars, nvars, tvars>>

(***************************************************************************)
(* Bounds.                                                                 *)
(***************************************************************************)
MaxFrags == 2       \* fragments returned by analyze
MaxStmts == 2       \* statements trace_schedule returns for one function
MaxLayout == 2      \* largest STRING_DATA_LAYOUT_SIZE tried
MaxLen == 3         \* length of to_nasm's argument in SpecNasm
MaxPieces == 3      \* accessor calls on one Terminal in SpecTerminal

(***************************************************************************)
(* Characters are their code points.                                       *)
(***************************************************************************)
QUOTE == 39
NEWLINE == 10
TAB == 9
COMMA == 44
SPACE == 32
DIGIT0 == 48

\* format!("{}", n) for an unsigned n: its decimal digits
RECURSIVE Decimal(_)
Decimal(n) ==
    IF n < 10 THEN <<DIGIT0 + n>>
    ELSE Decimal(n \div 10) \o <<DIGIT0 + (n % 10)>>

\* a plausible slip: the tab is not in the match arm
nasm_char_tab_verbatim(char) ==
    IF char \in {QUOTE, NEWLINE}
    THEN <<QUOTE, COMMA, SPACE>> \o Decimal(char) \o <<COMMA, SPACE, QUOTE>>
    ELSE <<char>>

\* the match of to_nasm: what one char of the input contributes
nasm_char(char) ==
    IF char \in {QUOTE, NEWLINE, TAB}
    THEN <<QUOTE, COMMA, SPACE>> \o Decimal(char) \o <<COMMA, SPACE, QUOTE>>
    ELSE <<char>>

RECURSIVE nasm_chars(_)
nasm_chars(string) ==
    IF string = <<>> THEN <<>>
    ELSE nasm_char(Head(string)) \o nasm_chars(Tail(string))

to_nasm(string) == <<QUOTE>> \o nasm_chars(string) \o <<QUOTE>>

(***************************************************************************)
(* terminal.rs                                                             *)
(***************************************************************************)
BOLD == "ESC[1m"
BLUE == "ESC[34m"
END_BOLD == "ESC[22m"
RED == "ESC[31m"
RESET_COLOR == "ESC[39;49m"

\* isatty(stderr().as_raw_fd()) != 0 under cfg(unix), false under cfg(windows)
stderr_is_a_tty(plat, tty) == IF plat = "unix" THEN tty ELSE FALSE

Terminal_new(plat, tty) == [is_a_tty |-> stderr_is_a_tty(plat, tty)]

bold(self) == IF self.is_a_tty THEN BOLD ELSE ""

\* a plausible slip: one accessor forgets the is_a_tty test
blue_always(self) == BLUE

blue(self) == IF self.is_a_tty THEN BLUE ELSE ""

end_bold(self) == IF self.is_a_tty THEN END_BOLD ELSE ""

red(self) == IF self.is_a_tty THEN RED ELSE ""

reset_color(self) == IF self.is_a_tty THEN RESET_COLOR ELSE ""

(***************************************************************************)
(* main.rs: the values drive works on.                                     *)
(***************************************************************************)
END_MARKER == "__tiger_pointer_map_end"
POINTER_MAP_NAME == "__tiger_pointer_map"

\* env::external_functions(): the runtime functions declared extern
ExternalFunctions == <<"print", "printi">>

\* string literals and vtable method lists a program may hold
StrPool == {<<>>, <<97, QUOTE>>}
MethodLists == {<<>>, <<1, 2>>}

FunctionFragment == [kind |-> "Function", string |-> <<>>, methods |-> <<>>]
StrFragment(string) == [kind |-> "Str", string |-> string, methods |-> <<>>]
VTableFragment(methods) == [kind |-> "VTable", string |-> <<>>, methods |-> methods]

\* frame::Fragment; a fragment's label is its index in the list
Fragment ==
    {FunctionFragment}
        \cup {StrFragment(s) : s \in StrPool}
        \cup {VTableFragment(m) : m \in MethodLists}

SeqsUpTo(S, n) == UNION {[1..k -> S] : k \in 0..n}

FragLists == SeqsUpTo(Fragment, MaxFrags)

\* what alloc may return: the pointer temps of each call site (a call site per
\* element) and the instructions as instruction.to_string() gives them, one
\* call per call site
AllocOutcomes ==
    {[sites |-> <<>>, instructions |-> <<"">>],
     [sites |-> << <<>> >>, instructions |-> <<"call", "">>],
     [sites |-> << <<1, 2>>, <<3>> >>, instructions |-> <<"mov", "call", "", "call">>]}

\* the temp_map alloc returns for fragment i: (call-site label, pointer temps)
TempMapOf(i, shape) ==
    [j \in 1..Len(shape) |-> [label |-> <<i, j>>, temps |-> shape[j]]]

\* one write!/writeln! on the assembly file
W(op, frag, n, txt, data) ==
    [op |-> op, frag |-> frag, n |-> n, txt |-> txt, data |-> data]

\* one back-end call made for fragment i
E(i, stage, n, tm) == [frag |-> i, stage |-> stage, n |-> n, tm |-> tm]

NoCur == [stmts |-> 0, munched |-> 0, body |-> <<>>]

Errors == {"Err_open", "Err_parse", "Err_semant", "Err_create", "Err_write",
           "Err_gcc_lib_dir"}

(***************************************************************************)
(* main.rs: what drive writes.                                             *)
(***************************************************************************)
HeaderLines ==
    <<W("global", 0, 0, "main", <<>>),
      W("global", 0, 0, POINTER_MAP_NAME, <<>>),
      W("global", 0, 0, END_MARKER, <<>>)>>
    \o [k \in 1..Len(ExternalFunctions) |->
            W("extern", 0, 0, ExternalFunctions[k], <<>>)]
    \o <<W("blank", 0, 0, "", <<>>),
         W("section", 0, 0, ".data", <<>>),
         W("align", 0, 2, "", <<>>)>>

\* a plausible slip: the padding loop runs 0..STRING_DATA_LAYOUT_SIZE
StrLines_one_too_many(i, string, size) ==
    <<W("label", i, 0, "", <<>>), W("dq_type", i, 0, "STRING_TYPE", <<>>)>>
    \o [k \in 1..size |-> W("dq", i, 0, "", <<>>)]
    \o <<W("db", i, 0, "", to_nasm(string))>>

\* the Fragment::Str arm: "label: " dq STRING_TYPE, dq 0 ..., db <string>, 0
StrLines(i, string, size) ==
    <<W("label", i, 0, "", <<>>), W("dq_type", i, 0, "STRING_TYPE", <<>>)>>
    \o [k \in 1..(size - 1) |-> W("dq", i, 0, "", <<>>)]
    \o <<W("db", i, 0, "", to_nasm(string))>>

\* a plausible slip: the class label is written inside the is_empty test
VTableLines_label_inside_if(i, methods) ==
    IF methods # <<>>
    THEN <<W("vtable_label", i, 0, "", <<>>), W("vtable_dq", i, 0, "", methods)>>
    ELSE <<>>

\* the Fragment::VTable arm: "class:" then one write of all the dq lines
VTableLines(i, methods) ==
    <<W("vtable_label", i, 0, "", <<>>)>>
    \o (IF methods # <<>> THEN <<W("vtable_dq", i, 0, "", methods)>> ELSE <<>>)

\* the match of the .data loop
DataLines(fragment, i, size) ==
    CASE fragment.kind = "Function" -> <<>>
      [] fragment.kind = "Str" -> StrLines(i, fragment.string, size)
      [] fragment.kind = "VTable" -> VTableLines(i, fragment.methods)

\* prolog, the non-empty instructions, epilog
FunctionLines(i, body) ==
    <<W("prolog", i, 0, "", <<>>)>>
    \o SelectSeq([k \in 1..Len(body) |-> W("instr", i, k, body[k], <<>>)],
                 LAMBDA e : e.txt # "")
    \o <<W("epilog", i, 0, "", <<>>)>>

\* a plausible slip: the end marker is written only after a pointer temp
SiteLines_end_after_temps(site) ==
    <<W("dq_site", site.label[1], site.label[2], "", <<>>)>>
    \o [k \in 1..Len(site.temps) |-> W("dq_temp", 0, site.temps[k], "", <<>>)]
    \o (IF site.temps # <<>> THEN <<W("dq_end", 0, 0, END_MARKER, <<>>)>> ELSE <<>>)

\* the body of the inner loop over a function's call sites
SiteLines(site) ==
    <<W("dq_site", site.label[1], site.label[2], "", <<>>)>>
    \o [k \in 1..Len(site.temps) |-> W("dq_temp", 0, site.temps[k], "", <<>>)]
    \o <<W("dq_end", 0, 0, END_MARKER, <<>>)>>

RECURSIVE MapLines(_)
MapLines(map) ==
    IF map = <<>> THEN <<>>
    ELSE SiteLines(Head(map)) \o MapLines(Tail(map))

RECURSIVE MapsLines(_)
MapsLines(maps) ==
    IF maps = <<>> THEN <<>>
    ELSE MapLines(Head(maps)) \o MapsLines(Tail(maps))

\* the blank line, the table, its terminator and the end label
PointerMapLines(maps) ==
    <<W("blank", 0, 0, "", <<>>), W("map_label", 0, 0, POINTER_MAP_NAME, <<>>)>>
    \o MapsLines(maps)
    \o <<W("dq_end", 0, 0, END_MARKER, <<>>), W("end_label", 0, 0, END_MARKER, <<>>)>>

(***************************************************************************)
(* main.rs: drive, one action per step; a `?` that fails returns at once.  *)
(***************************************************************************)
Return(result) == pc' = "main" /\ drive_result' = result

Goto(label) == pc' = label /\ drive_result' = drive_result

Init ==
    /\ pc = "start"
    /\ has_arg \in BOOLEAN
    /\ layout_size \in 1..MaxLayout   \* 0..STRING_DATA_LAYOUT_SIZE - 1 is a usize range
    /\ fragments = <<>>
    /\ fi = 1
    /\ created = FALSE
    /\ out = <<>>
    /\ pointer_map = <<>>
    /\ cur = NoCur
    /\ log = <<>>
    /\ cmds = <<>>
    /\ nasm_status = "none"
    /\ drive_result = "none"
    /\ diags = 0
    /\ exit_code = -1
    /\ nasm_pc = "idle" /\ nasm_in = <<>> /\ nasm_out = <<>>
    /\ platform = "unix" /\ stderr_tty = FALSE /\ tty_at_new = FALSE
    /\ terminal = <<>> /\ pieces = <<>>

\* let mut args = args(); args.next(); if let Some(filename) = args.next()
Args ==
    /\ pc = "start"
    /\ IF has_arg THEN Goto("open") ELSE Return("Ok")
    /\ UNCHANGED <<nvars, tvars, has_arg, layout_size, fragments, fi, created, out, pointer_map,
                   cur, log, cmds, nasm_status, diags, exit_code>>

\* File::open(&filename)?
Open ==
    /\ pc = "open"
    /\ \/ Goto("parse")
       \/ Return("Err_open")
    /\ UNCHANGED <<nvars, tvars, has_arg, layout_size, fragments, fi, created, out, pointer_map,
                   cur, log, cmds, nasm_status, diags, exit_code>>

\* Lexer::new, Parser::new, parser.parse()?
Parse ==
    /\ pc = "parse"
    /\ \/ Goto("analyze")
       \/ Return("Err_parse")
    /\ UNCHANGED <<nvars, tvars, has_arg, layout_size, fragments, fi, created, out, pointer_map,
                   cur, log, cmds, nasm_status, diags, exit_code>>

\* a plausible slip: the error of analyze is dropped and drive goes on
Analyze_error_ignored ==
    /\ pc = "analyze"
    /\ \/ \E frs \in FragLists : fragments' = frs /\ Goto("create")
       \/ fragments' = fragments /\ pc' = "create" /\ drive_result' = "Err_semant"
    /\ UNCHANGED <<nvars, tvars, has_arg, layout_size, fi, created, out, pointer_map,
                   cur, log, cmds, nasm_status, diags, exit_code>>

\* rewrite, find_escapes, Env::new, semantic_analyzer.analyze(main_symbol, ast)?
Analyze ==
    /\ pc = "analyze"
    /\ \/ \E frs \in FragLists : fragments' = frs /\ Goto("create")
       \/ fragments' = fragments /\ Return("Err_semant")
    /\ UNCHANGED <<nvars, tvars, has_arg, layout_size, fi, created, out, pointer_map,
                   cur, log, cmds, nasm_status, diags, exit_code>>

\* File::create(&asm_output_path)?
Create ==
    /\ pc = "create"
    /\ \/ created' = TRUE /\ Goto("header")
       \/ created' = created /\ Return("Err_create")
    /\ UNCHANGED <<nvars, tvars, has_arg, layout_size, fragments, fi, out, pointer_map,
                   cur, log, cmds, nasm_status, diags, exit_code>>

\* the globals, the externs, the blank line, section .data, align 2
WriteHeader ==
    /\ pc = "header"
    /\ \E k \in 0..Len(HeaderLines) :
        /\ out' = out \o SubSeq(HeaderLines, 1, k)
        /\ IF k = Len(HeaderLines) THEN Goto("data") ELSE Return("Err_write")
    /\ fi' = 1
    /\ UNCHANGED <<nvars, tvars, has_arg, layout_size, fragments, created, pointer_map,
                   cur, log, cmds, nasm_status, diags, exit_code>>

\* one iteration of for fragment in &fragments
DataFragment ==
    /\ pc = "data"
    /\ fi <= Len(fragments)
    /\ LET lines == DataLines(fragments[fi], fi, layout_size) IN
       \E k \in 0..Len(lines) :
        /\ out' = out \o SubSeq(lines, 1, k)
        /\ IF k = Len(lines)
           THEN fi' = fi + 1 /\ Goto("data")
           ELSE fi' = fi /\ Return("Err_write")
    /\ UNCHANGED <<nvars, tvars, has_arg, layout_size, fragments, created, pointer_map,
                   cur, log, cmds, nasm_status, diags, exit_code>>

\* let mut pointer_map = vec![]; writeln!(file, "\nsection .text")?
TextSection ==
    /\ pc = "data"
    /\ fi > Len(fragments)
    /\ pointer_map' = <<>>
    /\ \/ out' = Append(out, W("text_section", 0, 0, ".text", <<>>))
          /\ fi' = 1 /\ Goto("text")
       \/ out' = out /\ fi' = fi /\ Return("Err_write")
    /\ UNCHANGED <<nvars, tvars, has_arg, layout_size, fragments, created,
                   cur, log, cmds, nasm_status, diags, exit_code>>

\* the Str and VTable arms of for fragment in fragments
TextSkip ==
    /\ pc = "text"
    /\ fi <= Len(fragments)
    /\ fragments[fi].kind # "Function"
    /\ fi' = fi + 1
    /\ Goto("text")
    /\ UNCHANGED <<nvars, tvars, has_arg, layout_size, fragments, created, out, pointer_map,
                   cur, log, cmds, nasm_status, diags, exit_code>>

(***************************************************************************)
(* main.rs: the Function arm of the .text loop, one action per call.       *)
(***************************************************************************)
Stage(from, to, entry) ==
    /\ pc = from
    /\ log' = Append(log, entry)
    /\ Goto(to)
    /\ UNCHANGED <<nvars, tvars, has_arg, layout_size, fragments, fi, created, out,
                   pointer_map, cmds, nasm_status, diags, exit_code>>

\* let body = frame.proc_entry_exit1(body)
ProcEntryExit1 ==
    /\ fi <= Len(fragments)
    /\ fragments[fi].kind = "Function"
    /\ Stage("text", "linearize", E(fi, "proc_entry_exit1", 0, <<>>))
    /\ cur' = NoCur

\* let statements = linearize(body)
Linearize ==
    /\ Stage("linearize", "basic_blocks", E(fi, "linearize", 0, <<>>))
    /\ cur' = cur

\* a plausible slip: the blocks are munched without being scheduled
BasicBlocks_skips_schedule ==
    /\ Stage("basic_blocks", "munch", E(fi, "basic_blocks", 0, <<>>))
    /\ \E n \in 1..MaxStmts : cur' = [cur EXCEPT !.stmts = n, !.munched = 0]

\* let (basic_blocks, done_label) = basic_blocks(statements)
BasicBlocks ==
    /\ Stage("basic_blocks", "trace_schedule", E(fi, "basic_blocks", 0, <<>>))
    /\ cur' = cur

\* let statements = trace_schedule(basic_blocks, done_label)
TraceSchedule ==
    \E n \in 1..MaxStmts :
        /\ Stage("trace_schedule", "munch", E(fi, "trace_schedule", n, <<>>))
        /\ cur' = [cur EXCEPT !.stmts = n, !.munched = 0]

\* one iteration of for statement in statements: generator.munch_statement
MunchStatement ==
    /\ cur.munched < cur.stmts
    /\ Stage("munch", "munch", E(fi, "munch_statement", cur.munched + 1, <<>>))
    /\ cur' = [cur EXCEPT !.munched = cur.munched + 1]

\* a plausible slip: the instructions are laid out without being allocated
ProcEntryExit2_skips_alloc ==
    /\ cur.munched = cur.stmts
    /\ Stage("munch", "proc_entry_exit3", E(fi, "proc_entry_exit2", 0, <<>>))
    /\ cur' = cur

\* generator.get_result(); frame.proc_entry_exit2(instructions, escaping_vars)
ProcEntryExit2 ==
    /\ cur.munched = cur.stmts
    /\ Stage("munch", "alloc", E(fi, "proc_entry_exit2", 0, <<>>))
    /\ cur' = cur

\* let (instructions, temp_map) = alloc(..); pointer_map.push(temp_map)
Alloc ==
    /\ pc = "alloc"
    /\ \E outcome \in AllocOutcomes :
        /\ log' = Append(log, E(fi, "alloc", 0, TempMapOf(fi, outcome.sites)))
        /\ pointer_map' = Append(pointer_map, TempMapOf(fi, outcome.sites))
        /\ cur' = [cur EXCEPT !.body = outcome.instructions]
    /\ Goto("proc_entry_exit3")
    /\ UNCHANGED <<nvars, tvars, has_arg, layout_size, fragments, fi, created, out,
                   cmds, nasm_status, diags, exit_code>>

\* let subroutine = frame.proc_entry_exit3(instructions)
ProcEntryExit3 ==
    /\ Stage("proc_entry_exit3", "write_function", E(fi, "proc_entry_exit3", 0, <<>>))
    /\ cur' = cur

\* the writes of subroutine.prolog, of each instruction, of subroutine.epilog
WriteFunction ==
    /\ pc = "write_function"
    /\ LET lines == FunctionLines(fi, cur.body) IN
       \E k \in 0..Len(lines) :
        /\ out' = out \o SubSeq(lines, 1, k)
        /\ IF k = Len(lines)
           THEN /\ fi' = fi + 1
                /\ log' = Append(log, E(fi, "write", 0, <<>>))
                /\ cur' = NoCur
                /\ Goto("text")
           ELSE /\ fi' = fi /\ log' = log /\ cur' = cur
                /\ Return("Err_write")
    /\ UNCHANGED <<nvars, tvars, has_arg, layout_size, fragments, created,
                   pointer_map, cmds, nasm_status, diags, exit_code>>

(***************************************************************************)
(* main.rs: the pointer map, nasm, ld, and main.                           *)
(***************************************************************************)
\* writeln!(file)?; the __tiger_pointer_map table; its end label
WritePointerMap ==
    /\ pc = "text"
    /\ fi > Len(fragments)
    /\ LET lines == PointerMapLines(pointer_map) IN
       \E k \in 0..Len(lines) :
        /\ out' = out \o SubSeq(lines, 1, k)
        /\ IF k = Len(lines) THEN Goto("nasm") ELSE Return("Err_write")
    /\ UNCHANGED <<nvars, tvars, has_arg, layout_size, fragments, fi, created,
                   pointer_map, cur, log, cmds, nasm_status, diags, exit_code>>

\* a plausible slip: the exit status of nasm is not looked at
RunNasm_status_ignored ==
    /\ pc = "nasm"
    /\ cmds' = Append(cmds, "nasm")
    /\ \E status \in {"spawn_error", "failure", "success"} :
        /\ nasm_status' = status
        /\ Goto("ld")
    /\ UNCHANGED <<nvars, tvars, has_arg, layout_size, fragments, fi, created, out,
                   pointer_map, cur, log, diags, exit_code>>

\* Command::new("nasm").args(..).status() and the match on it
RunNasm ==
    /\ pc = "nasm"
    /\ cmds' = Append(cmds, "nasm")
    /\ \E status \in {"spawn_error", "failure", "success"} :
        /\ nasm_status' = status
        /\ IF status = "success" THEN Goto("ld") ELSE Goto("end_scope")
    /\ UNCHANGED <<nvars, tvars, has_arg, layout_size, fragments, fi, created, out,
                   pointer_map, cur, log, diags, exit_code>>

\* get_gcc_lib_dir()?, then Command::new("ld").args(..).status().expect("link")
Link ==
    /\ pc = "ld"
    /\ \/ cmds' = cmds /\ Return("Err_gcc_lib_dir") /\ exit_code' = exit_code
       \/ cmds' = Append(cmds, "ld") /\ Goto("end_scope") /\ exit_code' = exit_code
       \/ cmds' = Append(cmds, "ld") /\ pc' = "exit" /\ drive_result' = "panic"
          /\ exit_code' = 101
    /\ UNCHANGED <<nvars, tvars, has_arg, layout_size, fragments, fi, created, out,
                   pointer_map, cur, log, nasm_status, diags>>

\* env.end_scope(); Ok(())
EndScope ==
    /\ pc = "end_scope"
    /\ Return("Ok")
    /\ UNCHANGED <<nvars, tvars, has_arg, layout_size, fragments, fi, created, out,
                   pointer_map, cur, log, cmds, nasm_status, diags, exit_code>>

\* error.show(&symbols, &terminal): the diagnostics rendered for one error
show(error) == 1

\* main: if let Err(error) = drive(..) { error.show(&symbols, &terminal) }, return
Main ==
    /\ pc = "main"
    /\ diags' = IF drive_result \in Errors THEN diags + show(drive_result) ELSE diags
    /\ exit_code' = 0
    /\ pc' = "exit"
    /\ UNCHANGED <<nvars, tvars, has_arg, layout_size, fragments, fi, created, out,
                   pointer_map, cur, log, cmds, nasm_status, drive_result>>

Next ==
    \/ Args \/ Open \/ Parse \/ Analyze \/ Create \/ WriteHeader
    \/ DataFragment \/ TextSection \/ TextSkip
    \/ ProcEntryExit1 \/ Linearize \/ BasicBlocks \/ TraceSchedule
    \/ MunchStatement \/ ProcEntryExit2 \/ Alloc \/ ProcEntryExit3
    \/ WriteFunction \/ WritePointerMap \/ RunNasm \/ Link \/ EndScope \/ Main

Spec == Init /\ [][Next]_vars

(***************************************************************************)
(* to_nasm on its own: every input string up to MaxLen characters.         *)
(***************************************************************************)
NasmAlphabet == {QUOTE, NEWLINE, TAB, COMMA, SPACE, 51, 97}

DriverIdle ==
    /\ pc = "idle" /\ has_arg = FALSE /\ layout_size = 1 /\ fragments = <<>>
    /\ fi = 1 /\ created = FALSE /\ out = <<>> /\ pointer_map = <<>>
    /\ cur = NoCur /\ log = <<>> /\ cmds = <<>> /\ nasm_status = "none"
    /\ drive_result = "none" /\ diags = 0 /\ exit_code = -1

InitNasm ==
    /\ DriverIdle
    /\ nasm_pc = "call"
    /\ nasm_in \in SeqsUpTo(NasmAlphabet, MaxLen)
    /\ nasm_out = <<>>
    /\ platform = "unix" /\ stderr_tty = FALSE /\ tty_at_new = FALSE
    /\ terminal = <<>> /\ pieces = <<>>

\* a call of to_nasm(string)
ToNasm ==
    /\ nasm_pc = "call"
    /\ nasm_out' = to_nasm(nasm_in)
    /\ nasm_pc' = "done"
    /\ UNCHANGED <<dvars, tvars, nasm_in>>

NextNasm == ToNasm

SpecNasm == InitNasm /\ [][NextNasm]_vars

(***************************************************************************)
(* Terminal on its own: new, then up to MaxPieces accessor calls, while    *)
(* the terminal behind fd 2 may hang up (isatty then answers 0).           *)
(***************************************************************************)
InitTerminal ==
    /\ DriverIdle
    /\ nasm_pc = "idle" /\ nasm_in = <<>> /\ nasm_out = <<>>
    /\ platform \in {"unix", "windows"}
    /\ stderr_tty \in BOOLEAN
    /\ tty_at_new = FALSE
    /\ terminal = <<>>
    /\ pieces = <<>>

\* Terminal::new()
New ==
    /\ terminal = <<>>
    /\ terminal' = Terminal_new(platform, stderr_tty)
    /\ tty_at_new' = stderr_tty
    /\ UNCHANGED <<dvars, nvars, platform, stderr_tty, pieces>>

\* the environment: the terminal behind standard error goes away
HangUp ==
    /\ stderr_tty
    /\ stderr_tty' = FALSE
    /\ UNCHANGED <<dvars, nvars, platform, tty_at_new, terminal, pieces>>

Call(name, ret) ==
    /\ terminal # <<>>
    /\ Len(pieces) < MaxPieces
    /\ pieces' = Append(pieces, [fn |-> name, ret |-> ret])
    /\ UNCHANGED <<dvars, nvars, platform, stderr_tty, tty_at_new, terminal>>

CallBold == Call("bold", bold(terminal))

CallBlue == Call("blue", blue(terminal))

CallEndBold == Call("end_bold", end_bold(terminal))

CallRed == Call("red", red(terminal))

CallResetColor == Call("reset_color", reset_color(terminal))

NextTerminal ==
    \/ New \/ HangUp
    \/ CallBold \/ CallBlue \/ CallEndBold \/ CallRed \/ CallResetColor

SpecTerminal == InitTerminal /\ [][NextTerminal]_vars

(***************************************************************************)
(* Reading a NASM db operand list back: operands separated by ", ", a      *)
(* single-quoted segment standing for its characters, a decimal number     *)
(* for one character code. Anything else reads as <<-1>>.                  *)
(***************************************************************************)
IsDigit(c) == c \in DIGIT0..(DIGIT0 + 9)

RECURSIVE ReadOperand(_, _), ReadQuoted(_, _), ReadNumber(_, _, _), ReadSeparator(_, _)
ReadOperand(s, i) ==
    IF i > Len(s) THEN <<-1>>
    ELSE IF s[i] = QUOTE THEN ReadQuoted(s, i + 1)
    ELSE IF IsDigit(s[i]) THEN ReadNumber(s, i, 0)
    ELSE <<-1>>

ReadQuoted(s, i) ==
    IF i > Len(s) THEN <<-1>>
    ELSE IF s[i] = QUOTE THEN ReadSeparator(s, i + 1)
    ELSE <<s[i]>> \o ReadQuoted(s, i + 1)

ReadNumber(s, i, acc) ==
    IF i <= Len(s) /\ IsDigit(s[i])
    THEN ReadNumber(s, i + 1, acc * 10 + (s[i] - DIGIT0))
    ELSE <<acc>> \o ReadSeparator(s, i)

ReadSeparator(s, i) ==
    IF i > Len(s) THEN <<>>
    ELSE IF i + 1 <= Len(s) /\ s[i] = COMMA /\ s[i + 1] = SPACE
    THEN ReadOperand(s, i + 2)
    ELSE <<-1>>

ReadDb(s) == ReadOperand(s, 1)

\* the characters of s that lie inside a quoted segment
RECURSIVE QuotedChars(_, _, _)
QuotedChars(s, i, inside) ==
    IF i > Len(s) THEN {}
    ELSE IF s[i] = QUOTE THEN QuotedChars(s, i + 1, ~inside)
    ELSE (IF inside THEN {s[i]} ELSE {}) \cup QuotedChars(s, i + 1, inside)

\* C10: to_nasm is a faithful encoding: its result starts and ends with a
\* quote, no quoted segment holds a quote, newline or tab, and read back as a
\* db operand list it gives exactly the characters of the argument, in order.
C10_ToNasmFaithful ==
    nasm_pc = "done" =>
        /\ Len(nasm_out) >= 2
        /\ nasm_out[1] = QUOTE
        /\ nasm_out[Len(nasm_out)] = QUOTE
        /\ QuotedChars(nasm_out, 1, FALSE) \cap {QUOTE, NEWLINE, TAB} = {}
        /\ QuotedChars(nasm_out, 1, FALSE) =
              {nasm_in[k] : k \in 1..Len(nasm_in)} \ {QUOTE, NEWLINE, TAB}
        /\ ReadDb(nasm_out) = nasm_in

\* an input mixing the three escaped characters with verbatim ones has been encoded
C10_Witness ==
    /\ nasm_pc = "done"
    /\ nasm_in = <<TAB, 97, QUOTE>>
    /\ nasm_out = <<QUOTE, QUOTE, COMMA, SPACE, 57, COMMA, SPACE, QUOTE, 97,
                    QUOTE, COMMA, SPACE, 51, 57, COMMA, SPACE, QUOTE, QUOTE>>

(***************************************************************************)
(* Terminal                                                                *)
(***************************************************************************)
Ansi(name) ==
    CASE name = "bold" -> "ESC[1m"
      [] name = "blue" -> "ESC[34m"
      [] name = "end_bold" -> "ESC[22m"
      [] name = "red" -> "ESC[31m"
      [] name = "reset_color" -> "ESC[39;49m"

\* C8 as stated: every accessor returns "" when standard error was not a tty
\* at construction and its ANSI sequence when it was.
C8_ColouredIffTtyAtNew ==
    \A k \in 1..Len(pieces) :
        pieces[k].ret = (IF tty_at_new THEN Ansi(pieces[k].fn) ELSE "")

\* C8 amended: the decision is taken once in Terminal::new, where a unix build
\* asks isatty and a windows build answers false; all accessors follow it,
\* whatever standard error becomes later.
C8_ColouredIffUnixTtyAtNew ==
    terminal # <<>> =>
        /\ terminal.is_a_tty = (platform = "unix" /\ tty_at_new)
        /\ \A k \in 1..Len(pieces) :
            pieces[k].ret = (IF platform = "unix" /\ tty_at_new
                             THEN Ansi(pieces[k].fn) ELSE "")

\* a unix build coloured three pieces although the terminal has hung up since
C8_Witness ==
    /\ platform = "unix" /\ tty_at_new /\ ~stderr_tty
    /\ Len(pieces) = 3
    /\ pieces[1] = [fn |-> "bold", ret |-> "ESC[1m"]
    /\ pieces[2] = [fn |-> "red", ret |-> "ESC[31m"]
    /\ pieces[3] = [fn |-> "reset_color", ret |-> "ESC[39;49m"]

(***************************************************************************)
(* The driver                                                              *)
(***************************************************************************)
DataOps == {"label", "dq_type", "dq", "db", "vtable_label", "vtable_dq"}
TextOps == {"prolog", "instr", "epilog"}

\* the places of out holding a write of kind op for fragment i
Places(op, i) == {p \in 1..Len(out) : out[p].op = op /\ out[p].frag = i}

\* the first place of out holding a write of kind op, 0 when there is none
FirstPlace(op) ==
    IF \E p \in 1..Len(out) : out[p].op = op
    THEN CHOOSE p \in 1..Len(out) :
            out[p].op = op /\ \A q \in 1..(p - 1) : out[q].op # op
    ELSE 0

Logged(i, stage) == \E q \in 1..Len(log) : log[q].frag = i /\ log[q].stage = stage

\* the whole assembly file has been written
FileComplete ==
    /\ Len(out) >= 2
    /\ out[Len(out)].op = "end_label"
    /\ out[Len(out) - 1].op = "dq_end"
    /\ drive_result # "Err_write"

\* C1 as stated: exit status 0 when drive succeeds, non-zero when it returns
\* an error.
C1_ExitCodeTellsFailure ==
    pc = "exit" =>
        /\ drive_result = "Ok" => exit_code = 0
        /\ drive_result \in Errors => exit_code # 0

\* C5: an error of File::open, parse or analyze is returned at once: no
\* assembly file is created or written, no back-end stage runs, neither nasm
\* nor ld is run, and main shows that error exactly once.
C5_EarlyReturnOneDiagnostic ==
    drive_result \in {"Err_open", "Err_parse", "Err_semant"} =>
        /\ pc \in {"main", "exit"}
        /\ ~created
        /\ out = <<>>
        /\ log = <<>>
        /\ cmds = <<>>
        /\ diags = (IF pc = "exit" THEN 1 ELSE 0)

\* main has reported a semantic error
C5_Witness ==
    /\ pc = "exit"
    /\ drive_result = "Err_semant"
    /\ diags = 1
    /\ ~created

\* C6: nasm runs only once the whole file is written, ld at most once and
\* only after nasm ran and succeeded, never when nasm could not be started
\* or failed.
C6_NasmThenLd ==
    /\ cmds \in {<<>>, <<"nasm">>, <<"nasm", "ld">>}
    /\ cmds # <<>> => FileComplete /\ created /\ nasm_status # "none"
    /\ cmds = <<>> => nasm_status = "none"
    /\ (\E k \in 1..Len(cmds) : cmds[k] = "ld") => nasm_status = "success"
    /\ nasm_status \in {"spawn_error", "failure"} => cmds = <<"nasm">>

\* nasm succeeded and ld was run after it
C6_Witness ==
    /\ cmds = <<"nasm", "ld">>
    /\ nasm_status = "success"
    /\ pc = "exit"
    /\ drive_result = "Ok"

\* the temp_maps the alloc calls returned, in call order
AllocReturns ==
    LET calls == SelectSeq(log, LAMBDA e : e.stage = "alloc")
    IN  [k \in 1..Len(calls) |-> calls[k].tm]

\* C2: no line of a function reaches the file before alloc has returned for
\* that function, and the pointer-map entries kept and written for it are the
\* ones that alloc call returned.
C2_EmissionAfterAlloc ==
    /\ \A p \in 1..Len(out) :
        out[p].op \in TextOps => Logged(out[p].frag, "alloc")
    /\ pointer_map = AllocReturns
    /\ \A p \in 1..Len(out) :
        out[p].op = "dq_site" =>
            \E q \in 1..Len(log) :
                /\ log[q].stage = "alloc"
                /\ log[q].frag = out[p].frag
                /\ out[p].n \in 1..Len(log[q].tm)
                /\ log[q].tm[out[p].n].label = <<out[p].frag, out[p].n>>
                /\ \A t \in 1..Len(log[q].tm[out[p].n].temps) :
                    /\ p + t <= Len(out) => out[p + t].op = "dq_temp"
                    /\ p + t <= Len(out) =>
                          out[p + t].n = log[q].tm[out[p].n].temps[t]

\* a function with two call sites was allocated, written, and its sites
\* written to the table
C2_Witness ==
    /\ \E i \in 1..Len(fragments) :
        /\ Places("epilog", i) # {}
        /\ Places("dq_site", i) # {}
        /\ \E q \in 1..Len(log) :
            log[q].frag = i /\ log[q].stage = "alloc" /\ Len(log[q].tm) = 2
    /\ FileComplete

\* the records of a pointer-map table read back from the writes after its
\* label; a table that is not well formed reads as a record labelled <<0, 0>>
BadTable == <<[label |-> <<0, 0>>, temps |-> <<>>]>>

RECURSIVE ReadTemps(_, _)
ReadTemps(t, i) ==
    IF i <= Len(t) /\ t[i].op = "dq_temp"
    THEN <<t[i].n>> \o ReadTemps(t, i + 1)
    ELSE <<>>

RECURSIVE ReadRecords(_, _)
ReadRecords(t, i) ==
    IF i > Len(t) THEN BadTable
    ELSE IF t[i].op = "dq_site"
    THEN LET temps == ReadTemps(t, i + 1)
             stop == i + 1 + Len(temps)
         IN  IF stop <= Len(t) /\ t[stop].op = "dq_end" /\ t[stop].txt = END_MARKER
             THEN <<[label |-> <<t[i].frag, t[i].n>>, temps |-> temps]>>
                     \o ReadRecords(t, stop + 1)
             ELSE BadTable
    ELSE IF /\ i + 1 = Len(t)
            /\ t[i].op = "dq_end" /\ t[i].txt = END_MARKER
            /\ t[i + 1].op = "end_label" /\ t[i + 1].txt = END_MARKER
    THEN <<>>
    ELSE BadTable

RECURSIVE Flatten(_)
Flatten(seqs) ==
    IF seqs = <<>> THEN <<>> ELSE Head(seqs) \o Flatten(Tail(seqs))

\* the indices of the Function fragments, ascending
RECURSIVE FunctionsFrom(_)
FunctionsFrom(i) ==
    IF i > Len(fragments) THEN <<>>
    ELSE (IF fragments[i].kind = "Function" THEN <<i>> ELSE <<>>)
            \o FunctionsFrom(i + 1)

\* C3: the table written after the __tiger_pointer_map label is, function by
\* function in .text order and call site by call site, the site label, its
\* pointer temps and the end marker, then one more end marker and the
\* definition of the end label; nothing else.
C3_PointerMapTable ==
    FileComplete =>
        LET p == FirstPlace("map_label")
            table == SubSeq(out, p + 1, Len(out))
            records == ReadRecords(table, 1)
        IN  /\ p > 1
            /\ out[p].txt = POINTER_MAP_NAME
            /\ out[p - 1].op = "blank"
            /\ Cardinality({q \in 1..Len(out) : out[q].op = "map_label"}) = 1
            /\ records = Flatten(pointer_map)
            /\ Len(pointer_map) = Len(FunctionsFrom(1))
            /\ \A k \in 1..Len(pointer_map) :
                \A j \in 1..Len(pointer_map[k]) :
                    pointer_map[k][j].label = <<FunctionsFrom(1)[k], j>>
            /\ Len(table) = Len(records) * 2 + 2
                    + Len(Flatten([k \in 1..Len(records) |-> records[k].temps]))

\* two functions: the only call site of the first holds no pointer temp, the
\* second has a site with two pointer temps and a site with one; the table
\* is written
C3_Witness ==
    /\ FileComplete
    /\ Len(pointer_map) = 2
    /\ Len(pointer_map[1]) = 1
    /\ pointer_map[1][1].temps = <<>>
    /\ Len(pointer_map[2]) = 2
    /\ pointer_map[2][1].temps = <<1, 2>>

\* both passes over the fragment list are over
PassesDone == FirstPlace("text_section") > 0 /\ pc # "text" /\ pc \notin
    {"linearize", "basic_blocks", "trace_schedule", "munch", "alloc",
     "proc_entry_exit3", "write_function"} /\ drive_result # "Err_write"

\* C4: a Str or VTable fragment is written in the .data pass only, a Function
\* fragment in the .text pass only; once both passes are over every fragment
\* has been written, and none twice.
C4_EachFragmentOnce ==
    LET text == FirstPlace("text_section")
        table == FirstPlace("map_label")
        first(i) == IF fragments[i].kind = "Function" THEN "prolog"
                    ELSE IF fragments[i].kind = "Str" THEN "label"
                    ELSE "vtable_label"
    IN  /\ \A p \in 1..Len(out) :
            /\ out[p].op \in DataOps =>
                /\ text = 0 \/ p < text
                /\ fragments[out[p].frag].kind \in {"Str", "VTable"}
            /\ out[p].op \in TextOps =>
                /\ text # 0 /\ text < p
                /\ table = 0 \/ p < table
                /\ fragments[out[p].frag].kind = "Function"
        /\ \A i \in 1..Len(fragments) :
            /\ Cardinality(Places(first(i), i)) <= 1
            /\ PassesDone => Cardinality(Places(first(i), i)) = 1
            /\ PassesDone /\ fragments[i].kind = "Function" =>
                  Cardinality(Places("epilog", i)) = 1

\* a list holding a vtable without methods and a function went through both
\* passes
C4_Witness ==
    /\ PassesDone
    /\ Len(fragments) = 2
    /\ fragments[1] = VTableFragment(<<>>)
    /\ fragments[2] = FunctionFragment
    /\ Places("vtable_label", 1) # {}
    /\ Places("epilog", 2) # {}

\* C7: a string literal is written in .data as its label, dq STRING_TYPE,
\* STRING_DATA_LAYOUT_SIZE - 1 times dq 0, and then db with its characters
\* and a closing 0: the characters start STRING_DATA_LAYOUT_SIZE quadwords
\* after the label.
C7_StringLayout ==
    /\ \A p \in 1..Len(out) :
        out[p].op = "db" =>
            LET i == out[p].frag
                l == p - layout_size - 1
            IN  /\ fragments[i].kind = "Str"
                /\ l >= 1
                /\ out[l].op = "label" /\ out[l].frag = i
                /\ out[l + 1].op = "dq_type" /\ out[l + 1].txt = "STRING_TYPE"
                /\ \A k \in (l + 2)..(p - 1) : out[k].op = "dq" /\ out[k].n = 0
                /\ Cardinality({k \in (l + 1)..(p - 1) :
                                    out[k].op \in {"dq_type", "dq"}}) = layout_size
                /\ ReadDb(out[p].data) = fragments[i].string
                /\ out[p].n = 0
                /\ FirstPlace("text_section") = 0 \/ p < FirstPlace("text_section")
    /\ FirstPlace("text_section") > 0 =>
        \A i \in 1..Len(fragments) :
            fragments[i].kind = "Str" => Cardinality(Places("db", i)) = 1

\* the literal a' was written with a header of two quadwords
C7_Witness ==
    /\ layout_size = 2
    /\ FirstPlace("text_section") > 0
    /\ \E i \in 1..Len(fragments) :
        /\ fragments[i] = StrFragment(<<97, QUOTE>>)
        /\ Places("db", i) # {}

\* the number of statements trace_schedule returned for fragment i
Scheduled(i) ==
    LET q == CHOOSE q \in 1..Len(log) :
                log[q].frag = i /\ log[q].stage = "trace_schedule"
    IN  log[q].n

\* the Function fragment after fragment i, 0 when there is none
NextFunction(i) ==
    IF \E j \in (i + 1)..Len(fragments) : fragments[j].kind = "Function"
    THEN CHOOSE j \in (i + 1)..Len(fragments) :
            /\ fragments[j].kind = "Function"
            /\ \A h \in (i + 1)..(j - 1) : fragments[h].kind # "Function"
    ELSE 0

\* call b is the one that has to follow call a
Follows(a, b) ==
    CASE a.stage = "proc_entry_exit1" -> b.frag = a.frag /\ b.stage = "linearize"
      [] a.stage = "linearize" -> b.frag = a.frag /\ b.stage = "basic_blocks"
      [] a.stage = "basic_blocks" -> b.frag = a.frag /\ b.stage = "trace_schedule"
      [] a.stage = "trace_schedule" ->
            /\ b.frag = a.frag
            /\ IF a.n = 0 THEN b.stage = "proc_entry_exit2"
               ELSE b.stage = "munch_statement" /\ b.n = 1
      [] a.stage = "munch_statement" ->
            /\ b.frag = a.frag
            /\ IF a.n = Scheduled(a.frag) THEN b.stage = "proc_entry_exit2"
               ELSE b.stage = "munch_statement" /\ b.n = a.n + 1
      [] a.stage = "proc_entry_exit2" -> b.frag = a.frag /\ b.stage = "alloc"
      [] a.stage = "alloc" -> b.frag = a.frag /\ b.stage = "proc_entry_exit3"
      [] a.stage = "proc_entry_exit3" -> b.frag = a.frag /\ b.stage = "write"
      [] a.stage = "write" ->
            b.frag = NextFunction(a.frag) /\ b.stage = "proc_entry_exit1"

\* C9: for each Function fragment, in list order, the stages run once each in
\* the order proc_entry_exit1, linearize, basic_blocks, trace_schedule,
\* munch_statement on each statement in order, proc_entry_exit2, alloc,
\* proc_entry_exit3, the writes; a function is wholly written before the
\* first stage of the next one, and its lines are written after its last stage.
C9_StraightLine ==
    /\ log # <<>> =>
        log[1].frag = NextFunction(0) /\ log[1].stage = "proc_entry_exit1"
    /\ \A q \in 1..(Len(log) - 1) : Follows(log[q], log[q + 1])
    /\ \A i \in 1..Len(fragments) :
        /\ Logged(i, "write") <=> Places("epilog", i) # {}
        /\ Places("prolog", i) # {} => Logged(i, "proc_entry_exit3")
        /\ PassesDone /\ fragments[i].kind = "Function" => Logged(i, "write")
    /\ \A q \in 1..Len(log) :
        log[q].stage = "proc_entry_exit1" =>
            \A i \in 1..(log[q].frag - 1) :
                fragments[i].kind = "Function" => Places("epilog", i) # {}

\* two functions went through the pipeline one after the other, the first
\* with two statements
C9_Witness ==
    /\ Len(fragments) = 2
    /\ fragments[1].kind = "Function" /\ fragments[2].kind = "Function"
    /\ Logged(2, "write")
    /\ \E q \in 1..Len(log) :
        log[q] = E(1, "munch_statement", 2, <<>>)
    /\ Len(log) = 19

====
